---- MODULE Spec2Model ----
(***************************************************************************)
(* Model of extract_segments / areCaseSegmentsCached / saveCaseSegments of *)
(* src/preprocess_extract_segments.py: the four-pass scan over one case's  *)
(* arterial pressure track and the persistence of the resulting segments.  *)
(*                                                                         *)
(* An arterial track (abp) is a sequence of runs of equal samples; a run   *)
(* is [from, to, v, nan]: samples from..to-1 (sample indices, 500 per      *)
(* second) all have value v, or are all NaN when nan is TRUE.              *)
(***************************************************************************)
EXTENDS Integers, Sequences, FiniteSets, TLC

\* ------------------------------------------------------------------------
\* Program constants
\* ------------------------------------------------------------------------
ABP_ECG_SRATE_HZ == 500

FEATURE_LENGTH_SEC == 60

NEW_SEGMENT_OFFSET_SEC == 10

CLEAN_WINDOW_SEC == 1800

IOH_THRESHOLD == 65

CLEAN_THRESHOLD == 75

ALL_PREDICTION_WINDOWS == <<3, 5, 10, 15>>

\* Python's None, for trackStartIndex (line 341) and for the unbound local j.
None == -1

\* ------------------------------------------------------------------------
\* Bounds of the model
\* ------------------------------------------------------------------------
\* number of case ids; the case list of a call has at most this many entries
MaxCases == 2

\* number of calls of extract_segments in one behaviour
MaxRuns == 2

\* the lead-in of a track is shifted by 0..MaxShift seconds of dead signal
MaxShift == 1

\* the end points of the intervals the three-case test is probed with
MaxPoint == 4

\* ------------------------------------------------------------------------
\* Tracks
\* ------------------------------------------------------------------------
RECURSIVE MkRuns(_, _)
\* spec: a list of <<seconds, value>> pairs (value None = NaN gap), laid out
\* from sample index `at`.
MkRuns(spec, at) ==
    IF spec = <<>> THEN <<>>
    ELSE LET h  == Head(spec)
             to == at + h[1] * ABP_ECG_SRATE_HZ
         IN  IF h[1] = 0 THEN MkRuns(Tail(spec), at)
             ELSE <<[from |-> at, to |-> to, v |-> h[2], nan |-> (h[2] = None)]>>
                  \o MkRuns(Tail(spec), to)

\* len(abp)
SampleCount(a) == IF a = <<>> THEN 0 ELSE a[Len(a)].to

Max(x, y) == IF x >= y THEN x ELSE y

Min(x, y) == IF x <= y THEN x ELSE y

\* number of samples of run r inside the slice [lo:hi]
Clip(r, lo, hi) == Max(0, Min(hi, r.to) - Max(lo, r.from))

RECURSIVE SliceSum(_, _, _, _)
\* sum of the non-NaN samples of a[lo:hi], over the first k runs
SliceSum(a, lo, hi, k) ==
    IF k = 0 THEN 0
    ELSE SliceSum(a, lo, hi, k - 1)
         + (IF a[k].nan THEN 0 ELSE Clip(a[k], lo, hi) * a[k].v)

RECURSIVE SliceCount(_, _, _, _)
\* number of non-NaN samples of a[lo:hi], over the first k runs
SliceCount(a, lo, hi, k) ==
    IF k = 0 THEN 0
    ELSE SliceCount(a, lo, hi, k - 1)
         + (IF a[k].nan THEN 0 ELSE Clip(a[k], lo, hi))

\* np.nanmean(a[lo*SRATE:hi*SRATE]) >= thr ; a NaN mean compares false
NanMeanGE(a, lo, hi, thr) ==
    LET n == SliceCount(a, lo * ABP_ECG_SRATE_HZ, hi * ABP_ECG_SRATE_HZ, Len(a))
        s == SliceSum(a, lo * ABP_ECG_SRATE_HZ, hi * ABP_ECG_SRATE_HZ, Len(a))
    IN  n > 0 /\ s >= thr * n

\* NanMeanLT with <= in place of <
NanMeanLE(a, lo, hi, thr) ==
    LET n == SliceCount(a, lo * ABP_ECG_SRATE_HZ, hi * ABP_ECG_SRATE_HZ, Len(a))
        s == SliceSum(a, lo * ABP_ECG_SRATE_HZ, hi * ABP_ECG_SRATE_HZ, Len(a))
    IN  n > 0 /\ s <= thr * n

\* np.nanmean(a[lo*SRATE:hi*SRATE]) < thr ; a NaN mean compares false
NanMeanLT(a, lo, hi, thr) ==
    LET n == SliceCount(a, lo * ABP_ECG_SRATE_HZ, hi * ABP_ECG_SRATE_HZ, Len(a))
        s == SliceSum(a, lo * ABP_ECG_SRATE_HZ, hi * ABP_ECG_SRATE_HZ, Len(a))
    IN  n > 0 /\ s < thr * n

\* track_length_seconds = int(len(abp) / ABP_ECG_SRATE_HZ)
TrackLengthSeconds(a) == SampleCount(a) \div ABP_ECG_SRATE_HZ

\* ------------------------------------------------------------------------
\* State
\* ------------------------------------------------------------------------
VARIABLES
    trackOf,            \* disk: case id -> arterial track of its _mini.vital file
    folders,            \* disk: case ids whose segment folder exists
    files,              \* disk: segment files written, <<caseid, start, lead, label>>
    cases_of_interest_idx, \* argument of the current call of extract_segments
    runs,               \* number of calls of extract_segments so far
    pc,                 \* position of the current call
    case_count,         \* index into cases_of_interest_idx (1-based)
    abp,                \* the loaded arterial track
    i, j,               \* the locals i and j of extract_segments
    started, eofReached, trackStartIndex,
    iohEvents, cleanEvents,
    positiveSegments, negativeSegments,
    saveIdx,            \* number of segment files written by the running saveCaseSegments
    passLog,            \* history: steps taken for the current case, in order
    saveCalls,          \* history: calls of saveCaseSegments per list position, this call
    completed,          \* history: case id -> number of segments handed to the
                        \*   saveCaseSegments call that returned for it (None: none yet)
    rechecks,           \* history: <<caseid, marker found>> of the marker checks made
                        \*   for a case after saveCaseSegments had returned for it
    written,            \* history: case ids that got a file after saveCaseSegments
                        \*   had returned for them
    outcomes,           \* history: what the passes computed for a case, one record
                        \*   per processing of the case that ended its passes
    probe               \* two intervals and the answers of the three-case test

disk == <<trackOf, folders, files>>

locals == <<abp, i, j, started, eofReached, trackStartIndex, iohEvents, cleanEvents,
            positiveSegments, negativeSegments, saveIdx>>

hist == <<passLog, saveCalls, completed, rechecks, written>>

vars == <<trackOf, folders, files, cases_of_interest_idx, runs, pc, case_count,
          abp, i, j, started, eofReached, trackStartIndex, iohEvents, cleanEvents,
          positiveSegments, negativeSegments, saveIdx,
          passLog, saveCalls, completed, rechecks, written, outcomes, probe>>

CaseIds == 1..MaxCases

caseid == cases_of_interest_idx[case_count]

track_length_seconds == TrackLengthSeconds(abp)

\* what the passes have computed for the current case when they end, by
\* reaching saveCaseSegments or by an exception
Outcome(exc) ==
    [case |-> caseid, events |-> iohEvents, windows |-> cleanEvents,
     positive |-> IF exc THEN <<>> ELSE positiveSegments,
     negative |-> IF exc THEN <<>> ELSE negativeSegments,
     raised |-> exc]

\* ------------------------------------------------------------------------
\* The three-case overlap test
\* ------------------------------------------------------------------------
\* case 1: starts during the event; case 2: ends during the event;
\* case 3: the event lies entirely inside the window
ThreeCase(s, e, event) ==
    \/ (s >= event[1] /\ s < event[2])
    \/ (e >= event[1] /\ e < event[2])
    \/ (s < event[1] /\ e > event[2])

\* indices of the events that the loop `for event in iohEvents` flags
Flagged(s, e, events) == {k \in 1..Len(events) : ThreeCase(s, e, events[k])}

\* OverlapFound looking at the first event only
OverlapFoundFirstOnly(s, e, events) == 1 \in Flagged(s, e, events)

\* overlapFound of the loop
OverlapFound(s, e, events) == Flagged(s, e, events) # {}

\* LatestEnd taken from the first flagged event, as if the loop broke there
LatestEndFirst(s, e, events) ==
    LET F == Flagged(s, e, events)
    IN  IF F = {} THEN None
        ELSE events[CHOOSE k \in F : \A m \in F : k <= m][2]

\* latestEnd of the loop: the end of the last flagged event in list order
LatestEnd(s, e, events) ==
    LET F == Flagged(s, e, events)
    IN  IF F = {} THEN None
        ELSE events[CHOOSE k \in F : \A m \in F : m <= k][2]

\* ------------------------------------------------------------------------
\* First pass
\* ------------------------------------------------------------------------
\* Recovery with the search starting one second early, at i + 59
RecoveryEarly(a, from) ==
    LET T  == TrackLengthSeconds(a)
        ok(q) == NanMeanGE(a, q - FEATURE_LENGTH_SEC, q, IOH_THRESHOLD)
    IN  IF \E q \in (from + FEATURE_LENGTH_SEC - 1)..(T - 1) : ok(q)
        THEN CHOOSE q \in (from + FEATURE_LENGTH_SEC - 1)..(T - 1) :
                 ok(q) /\ \A m \in (from + FEATURE_LENGTH_SEC - 1)..(q - 1) : ~ok(m)
        ELSE None

\* the inner loop `for j in range(i + 60, track_length_seconds)`: the first j
\* whose trailing minute has mean >= 65, or None when the loop runs out
Recovery(a, from) ==
    LET T  == TrackLengthSeconds(a)
        ok(q) == NanMeanGE(a, q - FEATURE_LENGTH_SEC, q, IOH_THRESHOLD)
    IN  IF \E q \in (from + FEATURE_LENGTH_SEC)..(T - 1) : ok(q)
        THEN CHOOSE q \in (from + FEATURE_LENGTH_SEC)..(T - 1) :
                 ok(q) /\ \A m \in (from + FEATURE_LENGTH_SEC)..(q - 1) : ~ok(m)
        ELSE None

\* FirstPassIter without the break of lines 374-375 after an unrecovered onset
FirstPassIterNoBreak ==
    /\ pc = "first"
    /\ ~eofReached
    /\ i < track_length_seconds - FEATURE_LENGTH_SEC
    /\ IF ~started
       THEN /\ IF NanMeanGE(abp, i, i + FEATURE_LENGTH_SEC, IOH_THRESHOLD)
               THEN started' = TRUE /\ trackStartIndex' = i
               ELSE UNCHANGED <<started, trackStartIndex>>
            /\ i' = i + 1
            /\ UNCHANGED <<j, eofReached, iohEvents>>
       ELSE IF NanMeanLT(abp, i, i + FEATURE_LENGTH_SEC, IOH_THRESHOLD)
       THEN LET r == Recovery(abp, i)
            IN  IF r = None
                THEN /\ j' = track_length_seconds - 1
                     /\ i' = i + 1
                     /\ UNCHANGED <<started, trackStartIndex, eofReached, iohEvents>>
                ELSE /\ j' = r
                     /\ iohEvents' = Append(iohEvents, <<i, r - 1>>)
                     /\ i' = (r - 1) + 1
                     /\ UNCHANGED <<started, trackStartIndex, eofReached>>
       ELSE /\ i' = i + 1
            /\ UNCHANGED <<j, started, trackStartIndex, eofReached, iohEvents>>
    /\ UNCHANGED <<disk, cases_of_interest_idx, runs, pc, case_count, abp, cleanEvents,
                   positiveSegments, negativeSegments, saveIdx, hist>>
    /\ UNCHANGED <<outcomes, probe>>

\* one iteration of `while i < track_length_seconds - 60`
FirstPassIter ==
    /\ pc = "first"
    /\ ~eofReached
    /\ i < track_length_seconds - FEATURE_LENGTH_SEC
    /\ IF ~started
       THEN /\ IF NanMeanGE(abp, i, i + FEATURE_LENGTH_SEC, IOH_THRESHOLD)
               THEN started' = TRUE /\ trackStartIndex' = i
               ELSE UNCHANGED <<started, trackStartIndex>>
            /\ i' = i + 1
            /\ UNCHANGED <<j, eofReached, iohEvents>>
       ELSE IF NanMeanLT(abp, i, i + FEATURE_LENGTH_SEC, IOH_THRESHOLD)
       THEN LET r == Recovery(abp, i)
            IN  IF r = None
                THEN /\ j' = track_length_seconds - 1
                     /\ eofReached' = TRUE
                     /\ i' = i + 1
                     /\ UNCHANGED <<started, trackStartIndex, iohEvents>>
                ELSE /\ j' = r
                     /\ iohEvents' = Append(iohEvents, <<i, r - 1>>)
                     /\ i' = (r - 1) + 1
                     /\ UNCHANGED <<started, trackStartIndex, eofReached>>
       ELSE /\ i' = i + 1
            /\ UNCHANGED <<j, started, trackStartIndex, eofReached, iohEvents>>
    /\ UNCHANGED <<disk, cases_of_interest_idx, runs, pc, case_count, abp, cleanEvents,
                   positiveSegments, negativeSegments, saveIdx, hist>>
    /\ UNCHANGED <<outcomes, probe>>

\* SecondPassInit without lines 391-392, which turn a missing scan start into 0
SecondPassInitNoDefault ==
    /\ pc = "first"
    /\ (eofReached \/ i >= track_length_seconds - FEATURE_LENGTH_SEC)
    /\ trackStartIndex' = trackStartIndex
    /\ i' = trackStartIndex'
    /\ eofReached' = FALSE
    /\ pc' = "second"
    /\ passLog' = Append(passLog, "first")
    /\ UNCHANGED <<disk, cases_of_interest_idx, runs, case_count, abp, j, started,
                   iohEvents, cleanEvents, positiveSegments, negativeSegments, saveIdx,
                   saveCalls, completed, rechecks, written>>
    /\ UNCHANGED <<outcomes, probe>>

\* the first loop has ended (condition false, or break on eofReached):
\* lines 390-393
SecondPassInit ==
    /\ pc = "first"
    /\ (eofReached \/ i >= track_length_seconds - FEATURE_LENGTH_SEC)
    /\ trackStartIndex' = (IF trackStartIndex = None THEN 0 ELSE trackStartIndex)
    /\ i' = trackStartIndex'
    /\ eofReached' = FALSE
    /\ pc' = "second"
    /\ passLog' = Append(passLog, "first")
    /\ UNCHANGED <<disk, cases_of_interest_idx, runs, case_count, abp, j, started,
                   iohEvents, cleanEvents, positiveSegments, negativeSegments, saveIdx,
                   saveCalls, completed, rechecks, written>>
    /\ UNCHANGED <<outcomes, probe>>

\* ------------------------------------------------------------------------
\* Second pass
\* ------------------------------------------------------------------------
\* one iteration of `while i < track_length_seconds - 1800`
SecondPassIter ==
    /\ pc = "second"
    /\ i < track_length_seconds - CLEAN_WINDOW_SEC
    /\ LET startIndex == i
           endIndex   == i + CLEAN_WINDOW_SEC
       IN  IF OverlapFound(startIndex, endIndex, iohEvents)
           THEN /\ i' = LatestEnd(startIndex, endIndex, iohEvents) + 1
                /\ UNCHANGED <<pc, cleanEvents>>
           ELSE IF NanMeanGE(abp, startIndex, endIndex, CLEAN_THRESHOLD)
           THEN IF j = None
                THEN \* forwardStart = j - 1800 reads an unbound local
                     /\ pc' = "raised"
                     /\ UNCHANGED <<i, cleanEvents>>
                ELSE IF ~OverlapFound(j - CLEAN_WINDOW_SEC, j, iohEvents)
                THEN /\ cleanEvents' = Append(cleanEvents, <<startIndex, endIndex>>)
                     /\ i' = endIndex + 1
                     /\ UNCHANGED pc
                ELSE /\ i' = i + NEW_SEGMENT_OFFSET_SEC
                     /\ UNCHANGED <<pc, cleanEvents>>
           ELSE /\ i' = i + NEW_SEGMENT_OFFSET_SEC
                /\ UNCHANGED <<pc, cleanEvents>>
    /\ outcomes' = (IF pc' = "raised" THEN outcomes \cup {Outcome(TRUE)} ELSE outcomes)
    /\ UNCHANGED <<disk, cases_of_interest_idx, runs, case_count, abp, j, started,
                   eofReached, trackStartIndex, iohEvents, positiveSegments,
                   negativeSegments, saveIdx, hist, probe>>

\* the second loop has ended: lines 461-502, the third pass
RECURSIVE PositiveNoPrevious(_, _, _, _)
\* PositiveFrom without the test against the previous event
PositiveNoPrevious(events, tsi, k, w) ==
    IF k > Len(events) THEN <<>>
    ELSE IF w > Len(ALL_PREDICTION_WINDOWS) THEN PositiveNoPrevious(events, tsi, k + 1, 1)
    ELSE LET event == events[k]
             predWindow == ALL_PREDICTION_WINDOWS[w]
             predictiveSegmentStart == event[1] - (predWindow * 60)
             predictiveSegmentEnd   == predictiveSegmentStart + FEATURE_LENGTH_SEC
             skip == \/ predictiveSegmentStart < 0
                     \/ predictiveSegmentStart < tsi
         IN  (IF skip THEN <<>>
              ELSE <<<<predictiveSegmentStart, predictiveSegmentEnd, predWindow>>>>)
             \o PositiveNoPrevious(events, tsi, k, w + 1)

RECURSIVE PositiveLiveExclusive(_, _, _, _)
\* PositiveFrom with <= in place of < in the test against trackStartIndex
PositiveLiveExclusive(events, tsi, k, w) ==
    IF k > Len(events) THEN <<>>
    ELSE IF w > Len(ALL_PREDICTION_WINDOWS) THEN PositiveLiveExclusive(events, tsi, k + 1, 1)
    ELSE LET event == events[k]
             predWindow == ALL_PREDICTION_WINDOWS[w]
             predictiveSegmentStart == event[1] - (predWindow * 60)
             predictiveSegmentEnd   == predictiveSegmentStart + FEATURE_LENGTH_SEC
             skip == \/ predictiveSegmentStart < 0
                     \/ predictiveSegmentStart <= tsi
                     \/ (k > 1 /\ ThreeCase(predictiveSegmentStart, predictiveSegmentEnd,
                                            events[k - 1]))
         IN  (IF skip THEN <<>>
              ELSE <<<<predictiveSegmentStart, predictiveSegmentEnd, predWindow>>>>)
             \o PositiveLiveExclusive(events, tsi, k, w + 1)

RECURSIVE PositiveFrom(_, _, _, _)
\* the segments appended by the third pass from event k, window w onwards
PositiveFrom(events, tsi, k, w) ==
    IF k > Len(events) THEN <<>>
    ELSE IF w > Len(ALL_PREDICTION_WINDOWS) THEN PositiveFrom(events, tsi, k + 1, 1)
    ELSE LET event == events[k]
             predWindow == ALL_PREDICTION_WINDOWS[w]
             predictiveSegmentStart == event[1] - (predWindow * 60)
             predictiveSegmentEnd   == predictiveSegmentStart + FEATURE_LENGTH_SEC
             skip == \/ predictiveSegmentStart < 0
                     \/ predictiveSegmentStart < tsi
                     \/ (k > 1 /\ ThreeCase(predictiveSegmentStart, predictiveSegmentEnd,
                                            events[k - 1]))
         IN  (IF skip THEN <<>>
              ELSE <<<<predictiveSegmentStart, predictiveSegmentEnd, predWindow>>>>)
             \o PositiveFrom(events, tsi, k, w + 1)

ThirdPass ==
    /\ pc = "second"
    /\ i >= track_length_seconds - CLEAN_WINDOW_SEC
    /\ positiveSegments' = PositiveFrom(iohEvents, trackStartIndex, 1, 1)
    /\ negativeSegments' = <<>>
    /\ i' = (IF Len(iohEvents) > 0 THEN Len(iohEvents) - 1 ELSE i)
    /\ pc' = "fourth"
    /\ passLog' = passLog \o <<"second", "third">>
    /\ UNCHANGED <<disk, cases_of_interest_idx, runs, case_count, abp, j, started,
                   eofReached, trackStartIndex, iohEvents, cleanEvents, saveIdx,
                   saveCalls, completed, rechecks, written>>
    /\ UNCHANGED <<outcomes, probe>>

RECURSIVE NegativeFromEnd(_, _)
\* NegativeFrom with the third offset taken from the end of the window
NegativeFromEnd(events, k) ==
    IF k > Len(events) THEN <<>>
    ELSE LET event == events[k]
             timeAtTen     == event[1] + 600
             timeAtFifteen == event[1] + 900
             timeAtTwenty  == event[2] + 1200
         IN  << <<timeAtTen, timeAtTen + 60>>,
                <<timeAtFifteen, timeAtFifteen + 60>>,
                <<timeAtTwenty, timeAtTwenty + 60>> >>
             \o NegativeFromEnd(events, k + 1)

RECURSIVE NegativeFrom(_, _)
\* the segments appended by the fourth pass from clean window k onwards
NegativeFrom(events, k) ==
    IF k > Len(events) THEN <<>>
    ELSE LET event == events[k]
             timeAtTen     == event[1] + 600
             timeAtFifteen == event[1] + 900
             timeAtTwenty  == event[1] + 1200
         IN  << <<timeAtTen, timeAtTen + 60>>,
                <<timeAtFifteen, timeAtFifteen + 60>>,
                <<timeAtTwenty, timeAtTwenty + 60>> >>
             \o NegativeFrom(events, k + 1)

FourthPass ==
    /\ pc = "fourth"
    /\ negativeSegments' = negativeSegments \o NegativeFrom(cleanEvents, 1)
    /\ i' = (IF Len(cleanEvents) > 0 THEN Len(cleanEvents) - 1 ELSE i)
    /\ pc' = "save"
    /\ passLog' = Append(passLog, "fourth")
    /\ UNCHANGED <<disk, cases_of_interest_idx, runs, case_count, abp, j, started,
                   eofReached, trackStartIndex, iohEvents, cleanEvents, positiveSegments,
                   saveIdx, saveCalls, completed, rechecks, written>>
    /\ UNCHANGED <<outcomes, probe>>

\* ------------------------------------------------------------------------
\* Persistence
\* ------------------------------------------------------------------------
\* areCaseSegmentsCached looking for a folder that is never made
areCaseSegmentsCachedNever(c) == c \in (folders \ CaseIds)

areCaseSegmentsCached(c) == c \in folders

\* the file written for the k-th segment handed to saveCaseSegments
SegmentFile(c, pos, neg, k) ==
    IF k <= Len(pos)
    THEN <<c, pos[k][1], pos[k][3], TRUE>>
    ELSE <<c, neg[k - Len(pos)][1], 0, FALSE>>

\* saveCaseSegments has returned: back to the case loop
Returned(c) ==
    /\ completed' = [completed EXCEPT ![c] = Len(positiveSegments) + Len(negativeSegments)]
    /\ case_count' = case_count + 1
    /\ pc' = "loop"

\* saveCaseSegments up to the first segment file: lines 539-551
SaveBegin ==
    /\ pc = "save"
    /\ saveCalls' = [saveCalls EXCEPT ![case_count] = @ + 1]
    /\ passLog' = Append(passLog, "save")
    /\ saveIdx' = 0
    /\ IF Len(positiveSegments) = 0 /\ Len(negativeSegments) = 0
       THEN Returned(caseid) /\ UNCHANGED folders
       ELSE IF ~areCaseSegmentsCached(caseid)
       THEN /\ folders' = folders \cup {caseid}
            /\ pc' = "write"
            /\ UNCHANGED <<case_count, completed>>
       ELSE Returned(caseid) /\ UNCHANGED folders
    /\ UNCHANGED <<trackOf, files, cases_of_interest_idx, runs, abp, i, j, started,
                   eofReached, trackStartIndex, iohEvents, cleanEvents, positiveSegments,
                   negativeSegments, rechecks, written, probe>>
    /\ outcomes' = outcomes \cup {Outcome(FALSE)}

\* one iteration of the two loops of saveCaseSegments: crop and to_vital
WriteSegment ==
    /\ pc = "write"
    /\ saveIdx < Len(positiveSegments) + Len(negativeSegments)
    /\ files' = files \cup
                {SegmentFile(caseid, positiveSegments, negativeSegments, saveIdx + 1)}
    /\ saveIdx' = saveIdx + 1
    /\ written' = (IF completed[caseid] # None THEN written \cup {caseid} ELSE written)
    /\ UNCHANGED <<trackOf, folders, cases_of_interest_idx, runs, pc, case_count, abp,
                   i, j, started, eofReached, trackStartIndex, iohEvents, cleanEvents,
                   positiveSegments, negativeSegments, passLog, saveCalls, completed,
                   rechecks>>
    /\ UNCHANGED <<outcomes, probe>>

\* both loops of saveCaseSegments are through
SaveReturn ==
    /\ pc = "write"
    /\ saveIdx = Len(positiveSegments) + Len(negativeSegments)
    /\ Returned(caseid)
    /\ UNCHANGED <<disk, cases_of_interest_idx, runs, abp, i, j, started, eofReached,
                   trackStartIndex, iohEvents, cleanEvents, positiveSegments,
                   negativeSegments, saveIdx, passLog, saveCalls, rechecks, written>>
    /\ UNCHANGED <<outcomes, probe>>

\* ------------------------------------------------------------------------
\* The case loop of extract_segments
\* ------------------------------------------------------------------------
InList == case_count <= Len(cases_of_interest_idx)

Recheck(found) ==
    rechecks' = (IF completed[caseid] # None
                 THEN rechecks \cup {<<caseid, found>>} ELSE rechecks)

\* lines 327-329: the case is cached, continue
SkipCached ==
    /\ pc = "loop"
    /\ InList
    /\ areCaseSegmentsCached(caseid)
    /\ case_count' = case_count + 1
    /\ passLog' = <<>>
    /\ Recheck(TRUE)
    /\ UNCHANGED <<disk, cases_of_interest_idx, runs, pc, locals, saveCalls, completed,
                   written>>
    /\ UNCHANGED <<outcomes, probe>>

\* lines 332-341: get_track_data returns and the per-case locals are reset
LoadTrack ==
    /\ pc = "loop"
    /\ InList
    /\ ~areCaseSegmentsCached(caseid)
    /\ abp' = trackOf[caseid]
    /\ iohEvents' = <<>>
    /\ cleanEvents' = <<>>
    /\ i' = 0
    /\ started' = FALSE
    /\ eofReached' = FALSE
    /\ trackStartIndex' = None
    /\ pc' = "first"
    /\ passLog' = <<"load">>
    /\ Recheck(FALSE)
    /\ UNCHANGED <<disk, cases_of_interest_idx, runs, case_count, j, positiveSegments,
                   negativeSegments, saveIdx, saveCalls, completed, written>>
    /\ UNCHANGED <<outcomes, probe>>

\* line 332: get_track_data raises; the exception leaves extract_segments
LoadFail ==
    /\ pc = "loop"
    /\ InList
    /\ ~areCaseSegmentsCached(caseid)
    /\ pc' = "raised"
    /\ passLog' = <<>>
    /\ Recheck(FALSE)
    /\ UNCHANGED <<disk, cases_of_interest_idx, runs, case_count, locals, saveCalls,
                   completed, written>>
    /\ UNCHANGED <<outcomes, probe>>

\* the case loop is through: extract_segments returns
Return ==
    /\ pc = "loop"
    /\ ~InList
    /\ pc' = "done"
    /\ UNCHANGED <<disk, cases_of_interest_idx, runs, case_count, locals, hist>>
    /\ UNCHANGED <<outcomes, probe>>

Running == pc \in {"loop", "first", "second", "fourth", "save", "write"}

\* the locals of a call that has not yet reached its first case
FreshLocals ==
    /\ abp = <<>>
    /\ i = 0
    /\ j = None
    /\ started = FALSE
    /\ eofReached = FALSE
    /\ trackStartIndex = None
    /\ iohEvents = <<>>
    /\ cleanEvents = <<>>
    /\ positiveSegments = <<>>
    /\ negativeSegments = <<>>
    /\ saveIdx = 0

\* the locals of the next call are those of a call that has not reached a case
ResetLocals ==
    /\ abp' = <<>>
    /\ i' = 0
    /\ j' = None
    /\ started' = FALSE
    /\ eofReached' = FALSE
    /\ trackStartIndex' = None
    /\ iohEvents' = <<>>
    /\ cleanEvents' = <<>>
    /\ positiveSegments' = <<>>
    /\ negativeSegments' = <<>>
    /\ saveIdx' = 0

\* external termination of the process, at any point of a call
Kill ==
    /\ Running
    /\ pc' = "killed"
    /\ ResetLocals
    /\ case_count' = 1
    /\ passLog' = <<>>
    /\ UNCHANGED <<disk, cases_of_interest_idx, runs, saveCalls, completed, rechecks,
                   written>>
    /\ UNCHANGED <<outcomes, probe>>

\* the orders random.shuffle can give the case list
Shuffles(list) ==
    {[k \in 1..Len(list) |-> list[p[k]]] :
        p \in {q \in [1..Len(list) -> 1..Len(list)] :
                  \A x, y \in 1..Len(list) : q[x] = q[y] => x = y}}

\* extract_segments is called again on the same case list
StartRun ==
    /\ pc \in {"done", "raised", "killed"}
    /\ runs < MaxRuns
    /\ runs' = runs + 1
    /\ pc' = "loop"
    /\ case_count' = 1
    /\ ResetLocals
    /\ passLog' = <<>>
    /\ saveCalls' = [k \in 1..MaxCases |-> 0]
    /\ UNCHANGED <<disk, cases_of_interest_idx, completed, rechecks, written>>
    /\ UNCHANGED <<outcomes, probe>>

\* the script is run again: lines 570-572 shuffle the cases into another order
\* before extract_segments is called on them
StartShuffled ==
    /\ pc \in {"done", "raised", "killed"}
    /\ runs < MaxRuns
    /\ runs' = runs + 1
    /\ pc' = "loop"
    /\ case_count' = 1
    /\ ResetLocals
    /\ passLog' = <<>>
    /\ saveCalls' = [k \in 1..MaxCases |-> 0]
    /\ cases_of_interest_idx' \in Shuffles(cases_of_interest_idx) \ {cases_of_interest_idx}
    /\ UNCHANGED <<disk, completed, rechecks, written, outcomes, probe>>

Next ==
    \/ SkipCached
    \/ LoadTrack
    \/ LoadFail
    \/ FirstPassIter
    \/ SecondPassInit
    \/ SecondPassIter
    \/ ThirdPass
    \/ FourthPass
    \/ SaveBegin
    \/ WriteSegment
    \/ SaveReturn
    \/ Return
    \/ Kill
    \/ StartRun

\* ------------------------------------------------------------------------
\* Tracks of the model
\* ------------------------------------------------------------------------
\* Each shape is a list of <<seconds, value>>; the value None is a NaN gap.

\* Scenario 1 of the specification: 70 mmHg, 50 mmHg during [300,420), 70 mmHg
Scenario1Shape == << <<300, 70>>, <<120, 50>>, <<3180, 70>> >>

\* Scenario 4: an event starting at second 1000, the track live from second 0
Scenario4Shape == << <<1044, 70>>, <<120, 50>>, <<200, 70>> >>

\* an event starting at second 180: the minute 3 minutes before it starts at
\* second 0, where the track goes live
EarlyEventShape == << <<224, 70>>, <<100, 50>>, <<100, 70>> >>

\* Scenario 4 with a dead lead-in, the track live from second 500
Scenario4LateShape == << <<504, 0>>, <<540, 70>>, <<120, 50>>, <<200, 70>> >>

\* no low pressure at all, long enough for one clean window
HealthyShape == << <<1900, 80>> >>

\* never below 65 and never a 30-minute mean of 75
MidrangeShape == << <<1900, 70>> >>

\* one event, 30 clean minutes, and a final drop that never recovers
EventThenCleanShape == << <<100, 80>>, <<100, 50>>, <<2100, 80>>, <<100, 50>> >>

\* an event that ends exactly where the 30-minute window from second 0 ends
EventAtWindowEndShape == << <<1700, 80>>, <<71, 50>>, <<1729, 80>>, <<101, 50>> >>

\* 30 clean minutes, an event shortly after them, and a final drop that never
\* recovers
CleanThenEventShape == << <<1880, 80>>, <<100, 50>>, <<1900, 80>>, <<100, 50>> >>

\* one event, two clean windows in a row, and a final drop that never recovers
TwoWindowsShape == << <<300, 80>>, <<100, 50>>, <<3700, 80>>, <<100, 50>> >>

\* two events more than 30 minutes apart, 30 clean minutes, and a final drop
\* that never recovers: the window after the first event runs into the second
TwoEventsThenCleanShape ==
    << <<100, 80>>, <<100, 50>>, <<1700, 80>>, <<100, 50>>, <<2300, 80>>, <<100, 50>> >>

\* two events inside the first 30 minutes of the track
TwoEventsInWindowShape ==
    << <<100, 80>>, <<100, 50>>, <<200, 80>>, <<100, 50>>, <<1500, 80>> >>

\* one event and 30 clean minutes after it; every drop recovers
RecoveredThenCleanShape == << <<100, 80>>, <<100, 50>>, <<2100, 80>> >>

\* pressure never reaches 65: the track never goes live
NeverLiveShape == << <<300, 50>> >>

\* nothing but a gap
AllGapShape == << <<200, None>> >>

\* a drop that has not recovered when the track ends
UnrecoveredShape == << <<200, 70>>, <<200, 50>> >>

\* one low second followed by a gap: the shortest possible event
ShortestEventShape ==
    << <<100, 80>>, <<1, 50>>, <<59, None>>, <<100, 70>>, <<100, 50>>, <<100, 70>> >>

\* the shortest event, and a second event starting 120 seconds after it began:
\* the minute 3 minutes before the second event ends where the first begins
AdjacentShape ==
    << <<100, 80>>, <<1, 50>>, <<59, None>>, <<104, 70>>, <<100, 50>>, <<100, 70>> >>

\* three events; 15 minutes before the third lies inside the first
ThreeEventsShape ==
    << <<150, 70>>, <<100, 50>>, <<150, 70>>, <<60, 50>>, <<600, 70>>, <<60, 50>>,
       <<100, 70>> >>

\* the empty track
EmptyShape == << >>

\* 70 mmHg with up to two drops: first of l1 seconds of value v1 after h0
\* seconds, second of l2 seconds of 50 mmHg after a further g seconds
DipShapes ==
    { << <<h0, 70>>, <<l1, v1>>, <<g, 80>>, <<l2, 50>>, <<h3, 70>> >> :
        h0 \in {90, 250}, l1 \in {1, 45, 70}, v1 \in {0, 50, None},
        g \in {20, 130}, l2 \in {0, 45}, h3 \in {30, 200} }

Shapes ==
    { Scenario1Shape, Scenario4Shape, Scenario4LateShape, EarlyEventShape, HealthyShape, MidrangeShape,
      EventThenCleanShape, EventAtWindowEndShape, CleanThenEventShape, TwoWindowsShape,
      TwoEventsThenCleanShape, TwoEventsInWindowShape, RecoveredThenCleanShape, NeverLiveShape, AllGapShape,
      UnrecoveredShape, ShortestEventShape, AdjacentShape, ThreeEventsShape, EmptyShape }
    \cup DipShapes

\* a shape after s seconds of gap
Shifted(shape, s) == << <<s, None>> >> \o shape

\* track a followed by n more samples of value v (n need not be whole seconds)
WithTail(a, n, v) ==
    a \o <<[from |-> SampleCount(a), to |-> SampleCount(a) + n, v |-> v, nan |-> FALSE]>>

\* a track whose sample count is not a whole number of seconds
RaggedTrack == WithTail(MkRuns(ThreeEventsShape, 0), 250, 70)

\* the arterial tracks of the single-case model
ScanTracks ==
    { MkRuns(Shifted(shape, s), 0) : shape \in Shapes, s \in 0..MaxShift }
    \cup {RaggedTrack}

\* the arterial tracks of the several-case model
CorpusTracks ==
    { MkRuns(shape, 0) :
        shape \in {HealthyShape, UnrecoveredShape, NeverLiveShape, ThreeEventsShape} }

\* cases_of_interest_idx holds distinct case ids (an index intersection, shuffled)
CaseLists == { [k \in 1..n |-> k] : n \in 1..MaxCases }

Scenario1 == MkRuns(Scenario1Shape, 0)

InitWith(tracks, lists) ==
    /\ cases_of_interest_idx \in lists
    /\ trackOf \in [1..Len(cases_of_interest_idx) -> tracks]
    /\ folders = {}
    /\ files = {}
    /\ runs = 1
    /\ pc = "loop"
    /\ case_count = 1
    /\ FreshLocals
    /\ passLog = <<>>
    /\ saveCalls = [k \in 1..MaxCases |-> 0]
    /\ completed = [c \in CaseIds |-> None]
    /\ rechecks = {}
    /\ written = {}
    /\ outcomes = {}

\* the probe of a call of extract_segments: the test is applied by the passes
NoProbe == [a |-> <<0, 1>>, b |-> <<0, 1>>, applied |-> FALSE, ab |-> FALSE, ba |-> FALSE]

\* one case, any track of the single-case model
Init == InitWith(ScanTracks, {<<1>>}) /\ probe = NoProbe

Spec == Init /\ [][Next]_vars

\* up to MaxCases cases, each with a track of the several-case model
InitCorpus == InitWith(CorpusTracks, CaseLists) /\ probe = NoProbe

SpecCorpus == InitCorpus /\ [][Next]_vars

\* the several-case model with calls on the reshuffled list as well
NextShuffled == Next \/ StartShuffled

SpecShuffled == InitCorpus /\ [][NextShuffled]_vars

\* ------------------------------------------------------------------------
\* The three-case test on its own: lines 405-417 and 487-496 applied to two
\* intervals (start, end) with start < end, in both argument orders
\* ------------------------------------------------------------------------
Intervals == {iv \in (0..MaxPoint) \X (0..MaxPoint) : iv[1] < iv[2]}

ApplyThreeCase ==
    /\ ~probe.applied
    /\ probe' = [probe EXCEPT !.applied = TRUE,
                              !.ab = ThreeCase(probe.a[1], probe.a[2], probe.b),
                              !.ba = ThreeCase(probe.b[1], probe.b[2], probe.a)]
    /\ UNCHANGED <<disk, cases_of_interest_idx, runs, pc, case_count, locals, hist,
                   outcomes>>

InitOverlap ==
    /\ InitWith({MkRuns(EmptyShape, 0)}, {<<1>>})
    /\ probe \in {[a |-> x, b |-> y, applied |-> FALSE, ab |-> FALSE, ba |-> FALSE] :
                     x \in Intervals, y \in Intervals}

NextOverlap == ApplyThreeCase

SpecOverlap == InitOverlap /\ [][NextOverlap]_vars

\* ------------------------------------------------------------------------
\* Properties
\* ------------------------------------------------------------------------
\* C1: the IOH events of a case form an ordered list: every event (start, end)
\* has end > start and end - start >= 60, and every event starts strictly
\* after the end of the event before it.
C1_EventsOrdered ==
    /\ \A k \in 1..Len(iohEvents) :
          /\ iohEvents[k][2] > iohEvents[k][1]
          /\ iohEvents[k][2] - iohEvents[k][1] >= 60
    /\ \A k \in 2..Len(iohEvents) : iohEvents[k][1] > iohEvents[k - 1][2]

\* the first pass has ended with several events, one of them exactly 60 long
C1_Witness ==
    /\ pc = "second"
    /\ Len(iohEvents) >= 2
    /\ \E k \in 1..Len(iohEvents) : iohEvents[k][2] - iohEvents[k][1] = 60

\* the passes of the current case are through: the event and window lists and
\* the segment lists all belong to the current case
PassesDone == pc \in {"save", "write"}

\* half-open intervals [a1, a2) and [b1, b2) share no second
Disjoint(a1, a2, b1, b2) == a2 <= b1 \/ b2 <= a1

\* C2: every clean window is exactly 1800 seconds long, the clean windows are
\* in strictly increasing start order with no two overlapping, and the
\* three-case overlap test of a clean window against any IOH event of the
\* case is false.
C2_CleanWindows ==
    /\ \A k \in 1..Len(cleanEvents) :
          /\ cleanEvents[k][2] - cleanEvents[k][1] = 1800
          /\ \A e \in 1..Len(iohEvents) :
                ~ThreeCase(cleanEvents[k][1], cleanEvents[k][2], iohEvents[e])
    /\ \A k \in 2..Len(cleanEvents) :
          /\ cleanEvents[k][1] > cleanEvents[k - 1][1]
          /\ Disjoint(cleanEvents[k - 1][1], cleanEvents[k - 1][2],
                      cleanEvents[k][1], cleanEvents[k][2])

\* the second pass has ended with two clean windows in a case with an event
C2_Witness ==
    /\ pc = "fourth"
    /\ Len(cleanEvents) >= 2
    /\ Len(iohEvents) >= 1

\* C3: no second lies both in a clean window [s, s+1800) and in an IOH event
\* [start, end) of the same case.
C3_WindowsDisjointFromEvents ==
    \A k \in 1..Len(cleanEvents) : \A e \in 1..Len(iohEvents) :
        Disjoint(cleanEvents[k][1], cleanEvents[k][2], iohEvents[e][1], iohEvents[e][2])

\* C4: an iteration of the second pass whose window [i, i+1800) overlaps no
\* event records (i, i+1800) and moves the cursor to i+1801 when the window's
\* mean is >= 75, and records nothing and moves the cursor to i+10 otherwise.
C4_SecondPassStep ==
    [][ (SecondPassIter /\ ~OverlapFound(i, i + 1800, iohEvents)) =>
           IF NanMeanGE(abp, i, i + 1800, 75)
           THEN /\ cleanEvents' = Append(cleanEvents, <<i, i + 1800>>)
                /\ i' = i + 1801
           ELSE /\ cleanEvents' = cleanEvents
                /\ i' = i + 10 ]_vars

\* the index of the event a positive segment was derived from
EventOf(seg) == CHOOSE k \in 1..Len(iohEvents) : iohEvents[k][1] = seg[1] + 60 * seg[3]

\* C5: every positive segment starts at or after second 0 and at or after
\* trackStartIndex, and does not overlap the event before the one it was
\* derived from.
C5_PositiveSegmentsSafe ==
    PassesDone =>
        \A n \in 1..Len(positiveSegments) :
            LET seg == positiveSegments[n]
            IN  /\ seg[1] >= 0
                /\ seg[1] >= trackStartIndex
                /\ \E k \in 1..Len(iohEvents) : iohEvents[k][1] = seg[1] + 60 * seg[3]
                /\ EventOf(seg) > 1 =>
                      /\ Disjoint(seg[1], seg[2], iohEvents[EventOf(seg) - 1][1],
                                  iohEvents[EventOf(seg) - 1][2])
                      /\ ~ThreeCase(seg[1], seg[2], iohEvents[EventOf(seg) - 1])

\* a positive segment was derived from an event that has a previous event
C5_Witness ==
    /\ PassesDone
    /\ \E n \in 1..Len(positiveSegments) : EventOf(positiveSegments[n]) > 1

\* the segment the third pass is to emit for event k and lead time L, if any
Candidate(k, L) == <<iohEvents[k][1] - 60 * L, iohEvents[k][1] - 60 * L + 60, L>>

Accepted(k, L) ==
    /\ Candidate(k, L)[1] >= 0
    /\ Candidate(k, L)[1] >= trackStartIndex
    /\ (k = 1 \/ ~ThreeCase(Candidate(k, L)[1], Candidate(k, L)[2], iohEvents[k - 1]))

Occurrences(seq, x) == Cardinality({n \in 1..Len(seq) : seq[n] = x})

C7_NegativeSegments ==
    PassesDone =>
        /\ Len(negativeSegments) = 3 * Len(cleanEvents)
        /\ \A k \in 1..Len(cleanEvents) :
              /\ negativeSegments[3 * k - 2]
                    = <<cleanEvents[k][1] + 600, cleanEvents[k][1] + 660>>
              /\ negativeSegments[3 * k - 1]
                    = <<cleanEvents[k][1] + 900, cleanEvents[k][1] + 960>>
              /\ negativeSegments[3 * k]
                    = <<cleanEvents[k][1] + 1200, cleanEvents[k][1] + 1260>>
        /\ \A n \in 1..Len(negativeSegments) :
              negativeSegments[n][2] - negativeSegments[n][1] = 60
        /\ \A n \in 1..Len(positiveSegments) :
              positiveSegments[n][2] - positiveSegments[n][1] = 60

\* the fourth pass has run on two clean windows, with a positive segment too
C7_Witness ==
    /\ PassesDone
    /\ Len(cleanEvents) = 2
    /\ Len(negativeSegments) = 6
    /\ Len(positiveSegments) >= 1

\* C8 (as claimed): once saveCaseSegments has returned for a case, every later
\* check of the case finds the processed marker set, and no further segment
\* file is written for the case.
C8_Idempotent ==
    /\ \A r \in rechecks : r[2] = TRUE
    /\ written = {}

\* C8 (amended): once saveCaseSegments has returned for a case, no further
\* segment file is written for the case, and a later check finds the marker
\* set exactly when the case had at least one segment.
C8_IdempotentUnlessEmpty ==
    /\ \A r \in rechecks : r[2] = (completed[r[1]] > 0)
    /\ written = {}

\* a second call has gone through a case with segments and a case without
C8_Witness ==
    /\ pc = "done"
    /\ runs = 2
    /\ \E r \in rechecks : r[2] = TRUE
    /\ \E r \in rechecks : r[2] = FALSE

\* C9: for a case whose marker was not set and whose track was loaded, once
\* the call has left the passes the steps taken were the four passes in
\* order followed by saveCaseSegments; saveCaseSegments is called at most
\* once per case, with the lists the third and fourth pass built.
C9_PassesThenSave ==
    /\ (passLog # <<>> /\ pc \in {"loop", "done", "raised"}) =>
          passLog = <<"load", "first", "second", "third", "fourth", "save">>
    /\ \A k \in 1..MaxCases : saveCalls[k] <= 1
    /\ PassesDone =>
          /\ positiveSegments = PositiveFrom(iohEvents, trackStartIndex, 1, 1)
          /\ negativeSegments = NegativeFrom(cleanEvents, 1)

\* C10 (as claimed): on the track of Scenario 1 the first pass yields
\* trackStartIndex = 0 and the single event (300, 419).
C10_Scenario1 ==
    (pc = "second" /\ abp = Scenario1) =>
        (trackStartIndex = 0 /\ iohEvents = << <<300, 419>> >>)

\* C10 (amended): on the track of Scenario 1 the first pass yields
\* trackStartIndex = 0 and the single event (256, 464).
C10_Scenario1Windowed ==
    (pc = "second" /\ abp = Scenario1) =>
        (trackStartIndex = 0 /\ iohEvents = << <<256, 464>> >>)

\* the first pass has ended on the track of Scenario 1
C10_Witness == pc = "second" /\ abp = Scenario1

\* C11: what is computed for a case depends on its own track only: any two
\* processings of the same case, whatever cases were processed before it in
\* their calls, compute the same IOH events, clean windows and segments.
C11_Independent ==
    \A o1 \in outcomes : \A o2 \in outcomes :
        o1.case = o2.case =>
            /\ o1.events = o2.events
            /\ o1.windows = o2.windows
            /\ o1.positive = o2.positive
            /\ o1.negative = o2.negative

\* C12: a failure of get_track_data for one case aborts exactly that case:
\* the call goes on with the next case of the list, and the markers and the
\* persisted segments of all cases are left as they were.
C12_LoadFailureSkipsCase ==
    [][LoadFail => (/\ pc' = "loop"
                    /\ case_count' = case_count + 1
                    /\ folders' = folders
                    /\ files' = files)]_vars

\* C13: the three-case test is symmetric in its argument order: for all
\* intervals a and b with start < end, the test of a against b and the test
\* of b against a give the same answer.
C13_Symmetric == probe.applied => (probe.ab = probe.ba)

\* C14: the three-case test answers true whenever the half-open intervals
\* [a.start, a.end) and [b.start, b.end) have a point in common.
C14_IntersectingFlagged ==
    (probe.applied /\ ~Disjoint(probe.a[1], probe.a[2], probe.b[1], probe.b[2]))
        => probe.ab

\* C15: when the tracks load, no step of extract_segments raises: the only
\* step that ends a call with an exception is a failure of get_track_data,
\* also for a first case whose track has no IOH onset.
C15_NoErrorWithoutLoadFailure == [][~LoadFail => pc' # "raised"]_vars

\* the minute from second q on has mean < 65 (an onset for a live track)
Low(q) == NanMeanLT(abp, q, q + 60, 65)

\* the minute up to second q has mean >= 65 (a recovery after an onset)
Recovered(q) == NanMeanGE(abp, q - 60, q, 65)

\* the minute from second q on has mean >= 65 (the track is live at q)
Live(q) == NanMeanGE(abp, q, q + 60, 65)

\* C16: when the first pass meets an onset at cursor i of a live track and no
\* second j in i+60 .. trackLength-1 is a recovery, the step records no event
\* and leaves the events recorded before as they are, and the first pass
\* stops there: its next step is the start of the second pass, with the same
\* events.
C16_UnrecoveredOnset ==
    [][ /\ ( /\ pc = "first" /\ pc' = "first"
             /\ started /\ ~eofReached
             /\ i < track_length_seconds - 60
             /\ Low(i)
             /\ \A q \in (i + 60)..(track_length_seconds - 1) : ~Recovered(q) )
           => (iohEvents' = iohEvents /\ eofReached')
        /\ (pc = "first" /\ eofReached /\ pc' # "killed")
           => (pc' = "second" /\ iohEvents' = iohEvents) ]_vars

\* an onset without recovery has ended the first pass after an earlier event
C16_Witness == pc = "first" /\ eofReached /\ Len(iohEvents) >= 1

\* the second pass is about to start, or the third pass is through
ScanStartInUse ==
    \/ pc = "second" /\ i = trackStartIndex /\ cleanEvents = <<>>
    \/ pc = "fourth"

\* C17: the trackStartIndex the second and third pass work with is the
\* smallest cursor position i < trackLength - 60 whose minute [i, i+60) has
\* mean >= 65, and 0 when there is none; a track that is never live has no
\* events, a track none of whose minutes has mean < 65 has no events, and
\* every event starts strictly after trackStartIndex.
C17_TrackStart ==
    ScanStartInUse =>
        LET last == track_length_seconds - 61
        IN  /\ IF \E q \in 0..last : Live(q)
               THEN /\ trackStartIndex \in 0..last
                    /\ Live(trackStartIndex)
                    /\ \A q \in 0..(trackStartIndex - 1) : ~Live(q)
               ELSE trackStartIndex = 0 /\ iohEvents = <<>>
            /\ (\A q \in 0..last : ~Low(q)) => iohEvents = <<>>
            /\ \A k \in 1..Len(iohEvents) : iohEvents[k][1] > trackStartIndex

\* a track that becomes live after second 0 and has an event
C17_Witness == pc = "fourth" /\ trackStartIndex > 0 /\ Len(iohEvents) >= 1

\* the cursor position at which the scan for the k-th event began
ScanFrom(k) == IF k = 1 THEN trackStartIndex + 1 ELSE iohEvents[k - 1][2] + 1

\* C18: every recorded event (s, e) has its start s beyond trackStartIndex
\* with the minute [s, s+60) of mean < 65; e+1 is the first second j >= s+60
\* whose trailing minute [j-60, j) has mean >= 65; and no cursor position from
\* the end of the event before plus one (trackStartIndex + 1 for the first
\* event) up to s-1 has a minute of mean < 65.
C18_EventsExact ==
    ScanStartInUse =>
        \A k \in 1..Len(iohEvents) :
            LET s == iohEvents[k][1]
                e == iohEvents[k][2]
            IN  /\ s > trackStartIndex
                /\ Low(s)
                /\ e + 1 >= s + 60
                /\ e + 1 < track_length_seconds
                /\ Recovered(e + 1)
                /\ \A q \in (s + 60)..e : ~Recovered(q)
                /\ \A q \in ScanFrom(k)..(s - 1) : ~Low(q)

\* two events, the second found by the scan resumed after the first
C18_Witness == pc = "fourth" /\ Len(iohEvents) >= 2

\* the largest end among the events the three-case test flags for [s, e)
MaxFlaggedEnd(s, e) ==
    LET ends == {iohEvents[k][2] : k \in Flagged(s, e, iohEvents)}
    IN  CHOOSE m \in ends : \A n \in ends : n <= m

FilesOf(o) ==
    {SegmentFile(o.case, o.positive, o.negative, k) :
        k \in 1..(Len(o.positive) + Len(o.negative))}

\* C20: whenever a call has run to completion, also a call that follows an
\* interrupted one, every case whose marker is set has all the segments the
\* passes computed for it persisted.
C20_Resumable ==
    pc = "done" =>
        \A o \in outcomes :
            (o.case \in folders /\ ~o.raised) => FilesOf(o) \subseteq files

\* C21: every positive segment derived from an event that has an event before
\* it starts at or after the end of that earlier event, and no positive
\* segment shares a second with any IOH event of the case.
C21_PositiveClearOfEvents ==
    PassesDone =>
        \A n \in 1..Len(positiveSegments) :
            LET seg == positiveSegments[n]
            IN  /\ \A k \in 2..Len(iohEvents) :
                       iohEvents[k][1] = seg[1] + 60 * seg[3] =>
                           seg[1] >= iohEvents[k - 1][2]
                /\ \A e \in 1..Len(iohEvents) :
                       Disjoint(seg[1], seg[2], iohEvents[e][1], iohEvents[e][2])

\* C22: within one case no positive segment shares a second with a negative
\* segment.
C22_PositiveNegativeDisjoint ==
    PassesDone =>
        \A p \in 1..Len(positiveSegments) : \A n \in 1..Len(negativeSegments) :
            Disjoint(positiveSegments[p][1], positiveSegments[p][2],
                     negativeSegments[n][1], negativeSegments[n][2])

\* C23: every iteration of the two scanning loops moves the cursor i strictly
\* forward and leaves the call in its pass, so that with the cursor bounded by
\* the track length both loops end and the case goes on towards
\* saveCaseSegments.
C23_CursorAdvances ==
    [][ /\ FirstPassIter => (i' > i /\ pc' = "first")
        /\ SecondPassIter => (i' > i /\ pc' = "second") ]_vars

====
